---- MODULE Spec2Model ----
(***************************************************************************)
(* The WebSocket session engine of the chat backend                         *)
(* (websocket/socket.ts: connection registry `clients`, room map            *)
(* `chatRooms`, per-connection handlers, heartbeat) together with the       *)
(* in-memory message store and the HTTP message controller that mutate      *)
(* the same store.                                                          *)
(*                                                                          *)
(* Each handler is an operator that computes, from the current state and    *)
(* its input, the new values of what it writes and the sequence `out` of    *)
(* events it sends; the action of the same name installs the new values.    *)
(* One broadcast reaches its recipients in connection order; the order      *)
(* among the recipients of a single broadcast is not modelled further.      *)
(***************************************************************************)
EXTENDS Integers, Sequences, FiniteSets, TLC

\* ---------------------------------------------------------------- bounds
\* Number of transport connections the server accepts in one run.
MaxConns == 2
\* Number of messages the store may hold in one run.
MaxMsgs == 1

\* ------------------------------------------------------- program constants
\* Close code used when the handshake is refused.
PolicyViolation == 1008

\* ------------------------------------------------------------ the stores
\* users store: the registered subjects.
Users == {"u1", "u2", "u3"}
NoUser == "none"

\* chats store: conversation id -> participants.  cA is a 1:1 conversation,
\* cB a group of three.
chats == [cA |-> {"u1", "u2"}, cB |-> {"u1", "u2", "u3"}]
ChatIds == DOMAIN chats
\* an id that names no conversation, and the absent (undefined) chat id
GhostChat == "cX"
NoChat == "none"
ChatArgs == ChatIds \cup {GhostChat, NoChat}

ConnIds == 1..MaxConns
NoConn == 0
MsgIds == 1..MaxMsgs

\* Credentials a client may present: none, one that fails verification, one
\* that verifies but names no user, or a valid one for a user.
Tokens == {"missing", "bad", "ghost"} \cup Users

VARIABLES
    conns,      \* connection handle -> WebSocketWithAuth fields and readyState
    clients,    \* Map<string, WebSocketWithAuth>, as its set of entries
    chatRooms,  \* Map<string, Set<string>>
    messages,   \* the in-memory message store (array)
    obs         \* per live connection and message: the status values it was sent

\* the state of one browser client (WebSocketProvider)
VARIABLES
    loggedIn,             \* useAuth(): token && user
    socks,                \* each WebSocket the provider created -> readyState
    wsCurrent,            \* ws.current
    isConnected,          \* useState isConnected
    reconnectTimeoutRef,  \* reconnectTimeoutRef.current
    pendingTimers,        \* setTimeout timers neither fired nor cleared
    clientMessages,       \* useState messages
    sendCount             \* chat_message frames the client has put on a socket

svars == <<conns, clients, chatRooms, messages, obs>>
cvars == <<loggedIn, socks, wsCurrent, isConnected, reconnectTimeoutRef,
           pendingTimers, clientMessages, sendCount>>
vars == <<conns, clients, chatRooms, messages, obs, loggedIn, socks, wsCurrent,
          isConnected, reconnectTimeoutRef, pendingTimers, clientMessages,
          sendCount>>

MaxSocks == 3
MaxSends == 1
SockIds == 1..MaxSocks
NoSock == 0

\* the provider right after its first render
ClientStart ==
    /\ loggedIn = FALSE
    /\ socks = [s \in SockIds |-> "unused"]
    /\ wsCurrent = NoSock
    /\ isConnected = FALSE
    /\ reconnectTimeoutRef = "null"
    /\ pendingTimers = 0
    /\ clientMessages = <<>>
    /\ sendCount = 0

\* ------------------------------------------------------------- Map helpers
MapHas(map, k) == \E e \in map : e.key = k
MapGet(map, k) == IF MapHas(map, k) THEN (CHOOSE e \in map : e.key = k).val ELSE NoConn
MapSetDup(map, k, v) == map \cup {[key |-> k, val |-> v]}
MapSet(map, k, v) == {e \in map : e.key # k} \cup {[key |-> k, val |-> v]}
MapDelete(map, k) == {e \in map : e.key # k}
MapKeys(map) == {e.key : e \in map}

\* ------------------------------------------------------------------ events
Ev(type, chatId, msgId, status, userId, users) ==
    [to |-> NoConn, type |-> type, chatId |-> chatId, msgId |-> msgId,
     status |-> status, userId |-> userId, users |-> users]
ErrorEv(text) == Ev("error", NoChat, 0, text, NoUser, {})
StatusEv(u, st) == Ev("user_status", NoChat, 0, st, u, {})

IsOpen(cs, c) == c # NoConn /\ cs[c].status = "open"

sendJsonAlways(cs, c, ev) == <<[ev EXCEPT !.to = c]>>

\* sendJson: the event reaches ws only when its readyState is OPEN
sendJson(cs, c, ev) == IF IsOpen(cs, c) THEN <<[ev EXCEPT !.to = c]>> ELSE <<>>

RECURSIVE SendEach(_, _, _, _)
SendEach(i, cs, targets, ev) ==
    IF i > MaxConns THEN <<>>
    ELSE (IF i \in targets THEN sendJson(cs, i, ev) ELSE <<>>)
         \o SendEach(i + 1, cs, targets, ev)

broadcastAll(cs, cl, senderWs, ev) ==
    SendEach(1, cs, {e.val : e \in cl}, ev)

\* broadcast: every registered connection other than senderWs
broadcast(cs, cl, senderWs, ev) ==
    SendEach(1, cs, {e.val : e \in cl} \ {senderWs}, ev)

broadcastToChatAll(cs, cl, rooms, chatId, ev, senderUserId, requireOnline) ==
    IF chatId \notin DOMAIN rooms THEN <<>>
    ELSE SendEach(1, cs, {MapGet(cl, u) : u \in rooms[chatId]} \ {NoConn}, ev)

\* broadcastToChat: the registered connection of every room member, the
\* sender skipped when senderUserId is given and requireOnline is set
broadcastToChat(cs, cl, rooms, chatId, ev, senderUserId, requireOnline) ==
    IF chatId \notin DOMAIN rooms THEN <<>>
    ELSE LET members == {u \in rooms[chatId] :
                           ~(senderUserId # NoUser /\ u = senderUserId /\ requireOnline)}
         IN SendEach(1, cs, {MapGet(cl, u) : u \in members} \ {NoConn}, ev)

leaveChatRoomKeep(rooms, userId, chatId) == rooms

leaveChatRoomNoDelete(rooms, userId, chatId) ==
    IF chatId \notin DOMAIN rooms THEN rooms
    ELSE [rooms EXCEPT ![chatId] = @ \ {userId}]

leaveChatRoom(rooms, userId, chatId) ==
    IF chatId \notin DOMAIN rooms THEN rooms
    ELSE LET left == rooms[chatId] \ {userId}
         IN IF left = {} THEN [k \in DOMAIN rooms \ {chatId} |-> rooms[k]]
            ELSE [rooms EXCEPT ![chatId] = left]

\* the status values carried by receive_message / message_status_update
\* events, appended to what each recipient has seen of that message
RECURSIVE Observe(_, _)
Observe(o, evs) ==
    IF evs = <<>> THEN o
    ELSE LET e == Head(evs)
             o1 == IF e.type \in {"receive_message", "message_status_update"}
                   THEN [o EXCEPT ![e.to][e.msgId] = Append(@, e.status)]
                   ELSE o
         IN Observe(o1, Tail(evs))

\* a connection object before the transport accepts it, and after its close
\* event has run (nothing refers to it any more)
FreshConn == [status |-> "idle", userId |-> NoUser, isAlive |-> FALSE,
              currentChatId |-> NoChat, closeCode |-> 0]

\* -------------------------------------------------------------------- Init
Init ==
    /\ conns = [c \in ConnIds |-> FreshConn]
    /\ clients = {}
    /\ chatRooms = [k \in {} |-> {}]
    /\ messages = <<>>
    /\ obs = [c \in ConnIds |-> [m \in MsgIds |-> <<>>]]
    /\ ClientStart

\* ------------------------------------------------------- connection accept
\* wss.clients keeps connections in the order they were accepted
NextConn == CHOOSE c \in ConnIds :
                /\ conns[c].status = "idle"
                /\ \A d \in ConnIds : d < c => conns[d].status # "idle"

\* wss.on('connection'): the handshake of connection c presenting token.
\* Result: the connection table, the registry and the events sent.
handleConnection(c, token) ==
    IF token \in {"missing", "ghost"}
    THEN \* ws.close(1008, ...); return
         [conns |-> [conns EXCEPT ![c].status = "closed",
                                  ![c].closeCode = PolicyViolation],
          clients |-> clients, out |-> <<>>]
    ELSE IF token = "bad"
    THEN \* jwt.verify throws; the catch block does nothing
         [conns |-> [conns EXCEPT ![c].status = "open"],
          clients |-> clients, out |-> <<>>]
    ELSE LET cs1 == [conns EXCEPT ![c].status = "open", ![c].userId = token,
                                  ![c].isAlive = TRUE]
             cl1 == MapSet(clients, token, c)
         IN [conns |-> cs1, clients |-> cl1,
             out |-> sendJson(cs1, c, Ev("auth_success", NoChat, 0, "", token, {}))
                     \o sendJson(cs1, c, Ev("online_users", NoChat, 0, "", NoUser,
                                            MapKeys(cl1)))
                     \o broadcast(cs1, cl1, c, StatusEv(token, "online"))]

Connect(token) ==
    /\ \E c \in ConnIds : conns[c].status = "idle"
    /\ LET r == handleConnection(NextConn, token) IN
       /\ conns' = r.conns
       /\ clients' = r.clients
    /\ UNCHANGED <<chatRooms, messages, obs, cvars>>

\* a connection whose handshake succeeded has the message / pong / close
\* handlers attached and is still open
Serving(c) == conns[c].status = "open" /\ conns[c].userId # NoUser

\* ------------------------------------------------------------- join_chat
handleJoinChatOpen(c, chatId) ==
    LET ws == conns[c]
        rooms1 == IF ws.currentChatId # NoChat /\ ws.currentChatId # chatId
                  THEN leaveChatRoom(chatRooms, ws.userId, ws.currentChatId)
                  ELSE chatRooms
    IN IF chatId = NoChat
       THEN [conns |-> conns, chatRooms |-> chatRooms, out |-> <<>>]
       ELSE [conns |-> [conns EXCEPT ![c].currentChatId = chatId],
             chatRooms |-> [k \in DOMAIN rooms1 \cup {chatId} |->
                              IF k = chatId
                              THEN (IF k \in DOMAIN rooms1 THEN rooms1[k] ELSE {})
                                   \cup {ws.userId}
                              ELSE rooms1[k]],
             out |-> sendJson(conns, c, Ev("joined_chat", chatId, 0, "", NoUser, {}))]

handleJoinChat(c, chatId) ==
    LET ws == conns[c]
        rooms1 == IF ws.currentChatId # NoChat /\ ws.currentChatId # chatId
                  THEN leaveChatRoom(chatRooms, ws.userId, ws.currentChatId)
                  ELSE chatRooms
    IN IF chatId = NoChat
       THEN [conns |-> conns, chatRooms |-> chatRooms, out |-> <<>>]
       ELSE IF chatId \notin ChatIds \/ ws.userId \notin chats[chatId]
       THEN [conns |-> conns, chatRooms |-> rooms1,
             out |-> sendJson(conns, c, ErrorEv("Not authorized for chat"))]
       ELSE [conns |-> [conns EXCEPT ![c].currentChatId = chatId],
             chatRooms |-> [k \in DOMAIN rooms1 \cup {chatId} |->
                              IF k = chatId
                              THEN (IF k \in DOMAIN rooms1 THEN rooms1[k] ELSE {})
                                   \cup {ws.userId}
                              ELSE rooms1[k]],
             out |-> sendJson(conns, c, Ev("joined_chat", chatId, 0, "", NoUser, {}))]

JoinChat(c, chatId) ==
    /\ Serving(c)
    /\ LET r == handleJoinChat(c, chatId) IN
       /\ conns' = r.conns
       /\ chatRooms' = r.chatRooms
    /\ UNCHANGED <<clients, messages, obs, cvars>>

\* ----------------------------------------------------------- chat_message
NewMessageUnread(msgs, sender, chatId) ==
    [id |-> Len(msgs) + 1, sender |-> sender, chatId |-> chatId,
     status |-> "sent", readBy |-> {}]

\* lines 142-145 (and message.controller.ts 63-71): the record pushed
NewMessage(msgs, sender, chatId) ==
    [id |-> Len(msgs) + 1, sender |-> sender, chatId |-> chatId,
     status |-> "sent", readBy |-> {sender}]

\* line 131: the sender must have joined the chat
joinedChat(ws, chatId) == ws.currentChatId = chatId

\* the checks of handleChatMessage, in order
ChatMessageVerdict(c, chatId, hasContent) ==
    IF chatId = NoChat \/ ~hasContent THEN "ignored"
    ELSE IF ~joinedChat(conns[c], chatId) THEN "not_in_room"
    ELSE IF chatId \notin ChatIds \/ conns[c].userId \notin chats[chatId]
    THEN "unauthorized"
    ELSE "accepted"

\* Result: the message store and the events sent
handleChatMessage(c, chatId, hasContent) ==
    LET v == ChatMessageVerdict(c, chatId, hasContent) IN
    CASE v = "ignored" -> [messages |-> messages, out |-> <<>>]
      [] v = "not_in_room" ->
           [messages |-> messages,
            out |-> sendJson(conns, c, ErrorEv("Must join chat before sending message"))]
      [] v = "unauthorized" ->
           [messages |-> messages,
            out |-> sendJson(conns, c, ErrorEv("Not authorized for chat"))]
      [] v = "accepted" ->
           LET m == NewMessage(messages, conns[c].userId, chatId) IN
           [messages |-> Append(messages, m),
            out |-> broadcastToChat(conns, clients, chatRooms, chatId,
                       Ev("receive_message", chatId, m.id, m.status, m.sender, {}),
                       NoUser, FALSE)
                    \o broadcastToChat(conns, clients, chatRooms, chatId,
                       Ev("message_status_update", chatId, m.id, "delivered", NoUser, {}),
                       conns[c].userId, TRUE)]

ChatMessage(c, chatId, hasContent) ==
    /\ Serving(c)
    /\ ChatMessageVerdict(c, chatId, hasContent) = "accepted" => Len(messages) < MaxMsgs
    /\ LET r == handleChatMessage(c, chatId, hasContent) IN
       /\ messages' = r.messages
       /\ obs' = Observe(obs, r.out)
    /\ UNCHANGED <<conns, clients, chatRooms, cvars>>

\* ------------------------------------------------------ typing/stop_typing
handleTypingAnywhere(c, chatId, isTyping) ==
    IF chatId = NoChat THEN <<>>
    ELSE broadcastToChat(conns, clients, chatRooms, chatId,
            Ev(IF isTyping THEN "typing" ELSE "stop_typing", chatId, 0, "",
               conns[c].userId, {}),
            conns[c].userId, TRUE)

\* Result: the events sent (no state is stored)
handleTyping(c, chatId, isTyping) ==
    IF chatId = NoChat \/ conns[c].currentChatId # chatId THEN <<>>
    ELSE broadcastToChat(conns, clients, chatRooms, chatId,
            Ev(IF isTyping THEN "typing" ELSE "stop_typing", chatId, 0, "",
               conns[c].userId, {}),
            conns[c].userId, TRUE)

\* the frame is handled (its events are handleTyping's) and nothing is stored
Typing(c, chatId, isTyping) ==
    /\ Serving(c)
    /\ isTyping \in BOOLEAN
    /\ UNCHANGED vars

\* ----------------------------------------------------------- read_receipt
\* line 176: a receipt from the message's own sender is dropped
isOwnMessage(m, readerUserId) == m.sender = readerUserId

allReadAny(chatId, sender, readBy) ==
    chatId \in ChatIds /\ \E r \in chats[chatId] \ {sender} : r \in readBy

\* lines 180-185: every participant other than the sender is in readBy
allRead(chatId, sender, readBy) ==
    IF chatId \in ChatIds
    THEN LET recipients == {p \in chats[chatId] : p # sender}
         IN \A r \in recipients : r \in readBy
    ELSE FALSE

markReadReplace(msgs, i, reader) ==
    LET readBy1 == {reader}
    IN [msgs EXCEPT ![i].readBy = readBy1,
                    ![i].status = IF allRead(msgs[i].chatId, msgs[i].sender, readBy1)
                                  THEN "read" ELSE @]

markReadOnly(msgs, i, reader) ==
    [msgs EXCEPT ![i].readBy = @ \cup {reader}]

\* the message store after reader is pushed onto readBy of message i
markRead(msgs, i, reader) ==
    LET readBy1 == msgs[i].readBy \cup {reader}
    IN [msgs EXCEPT ![i].readBy = readBy1,
                    ![i].status = IF allRead(msgs[i].chatId, msgs[i].sender, readBy1)
                                  THEN "read" ELSE @]

\* line 189: the connection the status update of a receipt is addressed to
receiptTarget(cl, m, senderId) == MapGet(cl, senderId)

ReceiptAppliesUnchecked(c, msgId, senderId, chatId) ==
    /\ msgId # 0 /\ senderId # NoUser /\ chatId # NoChat
    /\ msgId \in 1..Len(messages)
    /\ messages[msgId].chatId = chatId

ReceiptAppliesRepeat(c, msgId, senderId, chatId) ==
    /\ msgId # 0 /\ senderId # NoUser /\ chatId # NoChat
    /\ msgId \in 1..Len(messages)
    /\ messages[msgId].chatId = chatId
    /\ ~isOwnMessage(messages[msgId], conns[c].userId)

\* whether handleReadReceipt gets past its early returns and finds the
\* reader missing from readBy
ReceiptApplies(c, msgId, senderId, chatId) ==
    /\ msgId # 0 /\ senderId # NoUser /\ chatId # NoChat
    /\ msgId \in 1..Len(messages)
    /\ messages[msgId].chatId = chatId
    /\ ~isOwnMessage(messages[msgId], conns[c].userId)
    /\ conns[c].userId \notin messages[msgId].readBy

\* Result: the message store and the events sent
handleReadReceipt(c, msgId, senderId, chatId) ==
    IF ReceiptApplies(c, msgId, senderId, chatId)
    THEN LET msgs1 == markRead(messages, msgId, conns[c].userId) IN
         [messages |-> msgs1,
          out |-> sendJson(conns, receiptTarget(clients, messages[msgId], senderId),
                           Ev("message_status_update", chatId, msgId,
                              msgs1[msgId].status, conns[c].userId, {}))]
    ELSE [messages |-> messages, out |-> <<>>]

ReadReceipt(c, msgId, senderId, chatId) ==
    /\ Serving(c)
    /\ LET r == handleReadReceipt(c, msgId, senderId, chatId) IN
       /\ messages' = r.messages
       /\ obs' = Observe(obs, r.out)
    /\ UNCHANGED <<conns, clients, chatRooms, cvars>>

\* ------------------------------------------- unknown type / unparseable JSON
\* Result: the events sent
handleBadFrame(c, kind) ==
    sendJson(conns, c, ErrorEv(IF kind = "unknown" THEN "Unknown message type"
                               ELSE "Invalid message format"))

\* the frames a peer can put on a connection, by the fields the switch and
\* the handlers read
Frame(type, chatId, hasContent, msgId, senderId) ==
    [type |-> type, chatId |-> chatId, hasContent |-> hasContent,
     msgId |-> msgId, senderId |-> senderId]
Frames ==
    {Frame("join_chat", ch, FALSE, 0, NoUser) : ch \in ChatIds}
    \cup {Frame("chat_message", ch, TRUE, 0, NoUser) : ch \in ChatIds}
    \cup {Frame("typing", ch, FALSE, 0, NoUser) : ch \in ChatIds}
    \cup {Frame("read_receipt", f[3], FALSE, f[1], f[2]) :
             f \in MsgIds \X Users \X ChatIds}
    \cup {Frame("stop_typing", ch, FALSE, 0, NoUser) : ch \in ChatIds}
    \cup {Frame(k, NoChat, FALSE, 0, NoUser) : k \in {"unknown", "unparseable"}}

handleMessageUncaught(c, f) ==
    LET same == [conns |-> conns, chatRooms |-> chatRooms,
                 messages |-> messages, out |-> <<>>]
    IN IF conns[c].userId = NoUser THEN same
       ELSE CASE f.type = "join_chat" ->
                     LET r == handleJoinChat(c, f.chatId) IN
                     [same EXCEPT !.conns = r.conns, !.chatRooms = r.chatRooms,
                                  !.out = r.out]
              [] f.type = "chat_message" ->
                     LET r == handleChatMessage(c, f.chatId, f.hasContent) IN
                     [same EXCEPT !.messages = r.messages, !.out = r.out]
              [] f.type \in {"typing", "stop_typing"} ->
                     [same EXCEPT !.out = handleTyping(c, f.chatId, f.type = "typing")]
              [] f.type = "read_receipt" ->
                     LET r == handleReadReceipt(c, f.msgId, f.senderId, f.chatId) IN
                     [same EXCEPT !.messages = r.messages, !.out = r.out]
              [] f.type = "unknown" ->
                     [same EXCEPT !.out = handleBadFrame(c, f.type)]
              [] OTHER -> [same EXCEPT !.conns[c].status = "closed"]

handleMessageAnyone(c, f) ==
    LET same == [conns |-> conns, chatRooms |-> chatRooms,
                 messages |-> messages, out |-> <<>>]
    IN CASE f.type = "join_chat" ->
                LET r == handleJoinChat(c, f.chatId) IN
                [same EXCEPT !.conns = r.conns, !.chatRooms = r.chatRooms,
                             !.out = r.out]
         [] f.type = "chat_message" ->
                LET r == handleChatMessage(c, f.chatId, f.hasContent) IN
                [same EXCEPT !.messages = r.messages, !.out = r.out]
         [] f.type \in {"typing", "stop_typing"} ->
                [same EXCEPT !.out = handleTyping(c, f.chatId, f.type = "typing")]
         [] f.type = "read_receipt" ->
                LET r == handleReadReceipt(c, f.msgId, f.senderId, f.chatId) IN
                [same EXCEPT !.messages = r.messages, !.out = r.out]
         [] OTHER -> [same EXCEPT !.out = handleBadFrame(c, f.type)]

\* handleMessage: a connection without userId is turned away before the
\* switch; otherwise the frame goes to its handler.
\* Result: the connection table, the rooms, the message store, the events
handleMessage(c, f) ==
    LET same == [conns |-> conns, chatRooms |-> chatRooms,
                 messages |-> messages, out |-> <<>>]
    IN IF conns[c].userId = NoUser THEN same
       ELSE CASE f.type = "join_chat" ->
                     LET r == handleJoinChat(c, f.chatId) IN
                     [same EXCEPT !.conns = r.conns, !.chatRooms = r.chatRooms,
                                  !.out = r.out]
              [] f.type = "chat_message" ->
                     LET r == handleChatMessage(c, f.chatId, f.hasContent) IN
                     [same EXCEPT !.messages = r.messages, !.out = r.out]
              [] f.type \in {"typing", "stop_typing"} ->
                     [same EXCEPT !.out = handleTyping(c, f.chatId, f.type = "typing")]
              [] f.type = "read_receipt" ->
                     LET r == handleReadReceipt(c, f.msgId, f.senderId, f.chatId) IN
                     [same EXCEPT !.messages = r.messages, !.out = r.out]
              [] OTHER -> [same EXCEPT !.out = handleBadFrame(c, f.type)]

\* a frame of an unknown type, or one that JSON.parse or the switch throws
\* on, arriving on a serving connection
BadFrame(c, kind) ==
    /\ Serving(c)
    /\ LET r == handleMessage(c, Frame(kind, NoChat, FALSE, 0, NoUser)) IN
       /\ conns' = r.conns
       /\ chatRooms' = r.chatRooms
       /\ messages' = r.messages
       /\ obs' = Observe(obs, r.out)
    /\ UNCHANGED <<clients, cvars>>

\* a frame on an open connection whose handshake did not complete: no
\* 'message' listener was attached to it, and handleMessage would turn it
\* away; what the frame does is handleMessage's result
UnauthFrame(c) ==
    /\ conns[c].status = "open" /\ conns[c].userId = NoUser
    /\ \E f \in Frames :
          LET r == handleMessage(c, f) IN
          /\ conns' = r.conns
          /\ chatRooms' = r.chatRooms
          /\ messages' = r.messages
          /\ obs' = Observe(obs, r.out)
    /\ UNCHANGED <<clients, cvars>>

\* ------------------------------------------------------------------- close
\* the registry after the cleanup of connection c bound to userId
unregister(cl, userId, c) == MapDelete(cl, userId)

\* handleClose, for a connection whose handshake succeeded; cs is the
\* connection table at the time the close event is delivered
handleClose(cs, cl, rooms, c) ==
    LET ws == cs[c]
        rooms1 == IF ws.currentChatId # NoChat
                  THEN leaveChatRoom(rooms, ws.userId, ws.currentChatId) ELSE rooms
        cl1 == unregister(cl, ws.userId, c)
    IN [clients |-> cl1, chatRooms |-> rooms1,
        out |-> broadcast(cs, cl1, c, StatusEv(ws.userId, "offline"))]

\* the transport's 'close' event: the peer closed an open connection, or a
\* terminated connection finished closing
CloseEvent(c) ==
    /\ conns[c].status \in {"open", "terminated"}
    /\ conns' = [conns EXCEPT ![c] = [FreshConn EXCEPT !.status = "closed"]]
    /\ obs' = [obs EXCEPT ![c] = [m \in MsgIds |-> <<>>]]
    /\ UNCHANGED <<messages, cvars>>
    /\ IF conns[c].userId # NoUser
       THEN LET r == handleClose([conns EXCEPT ![c].status = "closed"],
                                 clients, chatRooms, c) IN
            /\ clients' = r.clients
            /\ chatRooms' = r.chatRooms
       ELSE UNCHANGED <<clients, chatRooms>>

\* --------------------------------------------------------------- heartbeat
Pong(c) ==
    /\ Serving(c)
    /\ ~conns[c].isAlive
    /\ conns' = [conns EXCEPT ![c].isAlive = TRUE]
    /\ UNCHANGED <<clients, chatRooms, messages, obs, cvars>>

HeartbeatOnePingOnly(st, c) ==
    LET ws == st.conns[c] IN
    IF ws.status # "open" \/ ws.userId = NoUser THEN st
    ELSE [st EXCEPT !.conns[c].isAlive = FALSE]

\* the body of the interval's forEach for one member of wss.clients
HeartbeatOne(st, c) ==
    LET ws == st.conns[c] IN
    IF ws.status # "open" \/ ws.userId = NoUser THEN st
    ELSE IF ~ws.isAlive
    THEN LET rooms1 == IF ws.currentChatId # NoChat
                       THEN leaveChatRoom(st.chatRooms, ws.userId, ws.currentChatId)
                       ELSE st.chatRooms
             cl1 == unregister(st.clients, ws.userId, c)
         IN [conns |-> [st.conns EXCEPT ![c].status = "terminated"],
             clients |-> cl1, chatRooms |-> rooms1,
             out |-> st.out \o broadcast(st.conns, cl1, c, StatusEv(ws.userId, "offline"))]
    ELSE [st EXCEPT !.conns[c].isAlive = FALSE]

RECURSIVE HeartbeatFrom(_, _)
HeartbeatFrom(i, st) ==
    IF i > MaxConns THEN st ELSE HeartbeatFrom(i + 1, HeartbeatOne(st, i))

\* one firing of the 30 s interval over wss.clients, in acceptance order
heartbeat == HeartbeatFrom(1, [conns |-> conns, clients |-> clients,
                               chatRooms |-> chatRooms, out |-> <<>>])

HeartbeatTick ==
    /\ \E c \in ConnIds : Serving(c)
    /\ conns' = heartbeat.conns
    /\ clients' = heartbeat.clients
    /\ chatRooms' = heartbeat.chatRooms
    /\ UNCHANGED <<messages, obs, cvars>>

\* ------------------------------------------------- HTTP message controller
RECURSIVE fetchMarkRead(_, _, _, _)
fetchMarkRead(msgs, i, userId, chatId) ==
    IF i > Len(msgs) THEN msgs
    ELSE fetchMarkRead(
            IF msgs[i].chatId = chatId /\ msgs[i].sender # userId
            THEN [msgs EXCEPT ![i].readBy = @ \cup {userId}] ELSE msgs,
            i + 1, userId, chatId)

\* GET /api/messages/:chatId by an authenticated user: the message store
getChatMessages(userId, chatId) ==
    IF chatId \in ChatIds /\ userId \in chats[chatId]
    THEN fetchMarkRead(messages, 1, userId, chatId)
    ELSE messages

HttpGetChatMessages(userId, chatId) ==
    /\ messages' = getChatMessages(userId, chatId)
    /\ UNCHANGED <<conns, clients, chatRooms, obs, cvars>>

\* POST /api/messages by an authenticated user
sendMessageAccepted(userId, chatId, hasContent) ==
    chatId # NoChat /\ hasContent /\ chatId \in ChatIds /\ userId \in chats[chatId]

HttpSendMessage(userId, chatId, hasContent) ==
    /\ IF sendMessageAccepted(userId, chatId, hasContent)
       THEN /\ Len(messages) < MaxMsgs
            /\ messages' = Append(messages, NewMessage(messages, userId, chatId))
       ELSE UNCHANGED messages
    /\ UNCHANGED <<conns, clients, chatRooms, obs, cvars>>

\* ------------------------------------------------------------------ inputs
\* chat_message / POST payloads <<chatId, hasContent>>: well-formed ones for
\* each conversation id, and one with each required field missing
ContentFrames ==
    {<<ch, TRUE>> : ch \in ChatIds \cup {GhostChat}} \cup {<<NoChat, TRUE>>, <<"cA", FALSE>>}

\* read_receipt payloads <<messageId, senderId, chatId>>: well-formed ones
\* (any message id, any senderId, any conversation id), and one with each
\* required field missing
ReceiptFrames ==
    (MsgIds \X Users \X ChatIds)
    \cup {<<0, "u1", "cA">>, <<1, NoUser, "cA">>, <<1, "u1", NoChat>>}

\* -------------------------------------------------------------------- Next
Next ==
    \/ \E t \in Tokens : Connect(t)
    \/ \E c \in ConnIds, ch \in ChatArgs : JoinChat(c, ch)
    \/ \E c \in ConnIds, f \in ContentFrames : ChatMessage(c, f[1], f[2])
    \/ \E c \in ConnIds, ch \in ChatArgs, ty \in BOOLEAN : Typing(c, ch, ty)
    \/ \E c \in ConnIds, f \in ReceiptFrames : ReadReceipt(c, f[1], f[2], f[3])
    \/ \E c \in ConnIds, k \in {"unknown", "unparseable"} : BadFrame(c, k)
    \/ \E c \in ConnIds : UnauthFrame(c)
    \/ \E c \in ConnIds : CloseEvent(c)
    \/ \E c \in ConnIds : Pong(c)
    \/ HeartbeatTick
    \/ \E u \in Users, ch \in ChatIds \cup {GhostChat} : HttpGetChatMessages(u, ch)
    \/ \E u \in Users, f \in ContentFrames : HttpSendMessage(u, f[1], f[2])

Spec == Init /\ [][Next]_vars

\* ==================================================== the browser client
\* WebSocketContext.tsx: one WebSocketProvider, its sockets, its reconnect
\* timer and its message list.  The server is the environment here: sockets
\* open, deliver events and close with a code.
NormalClosure == 1000
AbnormalClosure == 1006

\* the close codes the 'close' event of a socket can carry, by its readyState
\* and by who started the close
CodesFor(readyState) ==
    CASE readyState = "connecting" -> {AbnormalClosure}
      [] readyState = "open" -> {NormalClosure, PolicyViolation, AbnormalClosure}
      [] readyState = "closingOpen" -> {NormalClosure, AbnormalClosure}
      [] readyState = "closingConn" -> {AbnormalClosure}
      [] OTHER -> {}

ClientState ==
    [socks |-> socks, wsCurrent |-> wsCurrent, isConnected |-> isConnected,
     ref |-> reconnectTimeoutRef, pending |-> pendingTimers,
     msgs |-> clientMessages]

Install(r) ==
    /\ socks' = r.socks
    /\ wsCurrent' = r.wsCurrent
    /\ isConnected' = r.isConnected
    /\ reconnectTimeoutRef' = r.ref
    /\ pendingTimers' = r.pending
    /\ clientMessages' = r.msgs

HasUnused(st) == \E s \in SockIds : st.socks[s] = "unused"
NextSock(st) == CHOOSE s \in SockIds :
                    /\ st.socks[s] = "unused"
                    /\ \A t \in SockIds : t < s => st.socks[t] # "unused"

\* clearTimeout(reconnectTimeoutRef.current): the timer the ref designates
\* is cancelled; the ref itself keeps the (now dead) timer id
clearTimer(st) ==
    IF st.ref = "live" THEN [st EXCEPT !.pending = @ - 1, !.ref = "stale"] ELSE st

\* connectWebSocket, as created in a render whose token is `token`
connectWebSocket(st, token) ==
    IF ~token \/ st.wsCurrent # NoSock THEN st
    ELSE [st EXCEPT !.socks[NextSock(st)] = "connecting",
                    !.wsCurrent = NextSock(st)]

\* WebSocket.close() on socket s
closeSock(ss, s) ==
    [ss EXCEPT ![s] = CASE @ = "connecting" -> "closingConn"
                        [] @ = "open" -> "closingOpen"
                        [] OTHER -> @]

\* newWs.onopen
onopen(st) ==
    LET st1 == [st EXCEPT !.isConnected = TRUE]
    IN IF st1.ref # "null" THEN [clearTimer(st1) EXCEPT !.ref = "null"] ELSE st1

\* newWs.onclose, with the token of the render that created the socket
onclose(st, code, token) ==
    LET st1 == [st EXCEPT !.isConnected = FALSE, !.wsCurrent = NoSock]
    IN IF code # NormalClosure /\ code # PolicyViolation /\ token
       THEN IF st1.ref = "null"
            THEN [st1 EXCEPT !.ref = "live", !.pending = @ + 1]
            ELSE st1
       ELSE IF st1.ref # "null" THEN [clearTimer(st1) EXCEPT !.ref = "null"]
            ELSE st1

\* the cleanup function the effect returned on its previous run
effectCleanup(st) ==
    LET st1 == IF st.wsCurrent # NoSock
               THEN [st EXCEPT !.socks = closeSock(@, st.wsCurrent),
                               !.wsCurrent = NoSock]
               ELSE st
    IN IF st1.ref # "null" THEN clearTimer(st1) ELSE st1

\* the effect body, run with the new token && user
effectBody(st, auth) ==
    IF auth THEN connectWebSocket(st, TRUE)
    ELSE LET st1 == IF st.wsCurrent # NoSock
                    THEN [st EXCEPT !.socks = closeSock(@, st.wsCurrent),
                                    !.wsCurrent = NoSock,
                                    !.isConnected = FALSE, !.msgs = <<>>]
                    ELSE st
         IN IF st1.ref # "null" THEN [clearTimer(st1) EXCEPT !.ref = "null"]
            ELSE st1

\* message ids: the client's temporary id of its n-th send, the server's id
\* of that message, and the server's id of a message of another subject
TempId(n) == <<"temp", n>>
ServerId(n) == <<"msg", n>>
PeerId == <<"peer", 1>>
ServerIds == {ServerId(n) : n \in 1..MaxSends} \cup {PeerId}
Statuses == {"sent", "delivered", "read"}

\* ['sent', 'delivered', 'read'].indexOf(status)
statusIndex(status) ==
    CASE status = "sent" -> 0 [] status = "delivered" -> 1
      [] status = "read" -> 2 [] OTHER -> -1

updateMessageStatusAny(msgs, id, status) ==
    [i \in DOMAIN msgs |->
        IF msgs[i].id = id THEN [msgs[i] EXCEPT !.status = status] ELSE msgs[i]]

\* updateMessageStatus
updateMessageStatus(msgs, id, status) ==
    [i \in DOMAIN msgs |->
        IF msgs[i].id = id /\ statusIndex(status) > statusIndex(msgs[i].status)
        THEN [msgs[i] EXCEPT !.status = status] ELSE msgs[i]]

\* onmessage, case 'receive_message'
receiveMessage(msgs, id) ==
    IF \E i \in DOMAIN msgs : msgs[i].id = id THEN msgs
    ELSE Append(msgs, [id |-> id, status |-> "sent"])

\* sendJson: whether the frame goes out
sendJsonOk == wsCurrent # NoSock /\ socks[wsCurrent] = "open"

\* the effect runs again because token, user or connectWebSocket changed
EffectRun(auth) ==
    /\ auth => \E s \in SockIds : socks[s] = "unused"
    /\ loggedIn' = auth
    /\ Install(effectBody(effectCleanup(ClientState), auth))
    /\ UNCHANGED <<sendCount, svars>>

SockOpen(s) ==
    /\ socks[s] = "connecting"
    /\ Install(onopen([ClientState EXCEPT !.socks[s] = "open"]))
    /\ UNCHANGED <<loggedIn, sendCount, svars>>

\* the 'close' event of socket s
SockClose(s, code) ==
    /\ code \in CodesFor(socks[s])
    /\ Install(onclose([ClientState EXCEPT !.socks[s] = "closed"], code, TRUE))
    /\ UNCHANGED <<loggedIn, sendCount, svars>>

\* the 5 s reconnect timer fires
TimerFire ==
    /\ pendingTimers > 0
    /\ wsCurrent = NoSock => \E s \in SockIds : socks[s] = "unused"
    /\ Install(connectWebSocket(
                  [ClientState EXCEPT !.ref = "null", !.pending = @ - 1], TRUE))
    /\ UNCHANGED <<loggedIn, sendCount, svars>>

\* sendMessageWrapper
SendMessage ==
    /\ loggedIn
    /\ sendCount < MaxSends
    /\ IF sendJsonOk
       THEN /\ clientMessages' = Append(clientMessages,
                                    [id |-> TempId(sendCount + 1), status |-> "sent"])
            /\ sendCount' = sendCount + 1
       ELSE UNCHANGED <<clientMessages, sendCount>>
    /\ UNCHANGED <<loggedIn, socks, wsCurrent, isConnected, reconnectTimeoutRef,
                   pendingTimers, svars>>

\* a receive_message event arrives on socket s: the echo of a send of this
\* client, or a message of another subject
RecvMessage(s, id) ==
    /\ socks[s] = "open"
    /\ id \in {ServerId(n) : n \in 1..sendCount} \cup {PeerId}
    /\ clientMessages' = receiveMessage(clientMessages, id)
    /\ UNCHANGED <<loggedIn, socks, wsCurrent, isConnected, reconnectTimeoutRef,
                   pendingTimers, sendCount, svars>>

\* a message_status_update event arrives on socket s
RecvStatus(s, id, status) ==
    /\ socks[s] = "open"
    /\ clientMessages' = updateMessageStatus(clientMessages, id, status)
    /\ UNCHANGED <<loggedIn, socks, wsCurrent, isConnected, reconnectTimeoutRef,
                   pendingTimers, sendCount, svars>>

ClientNext ==
    \/ \E auth \in BOOLEAN : EffectRun(auth)
    \/ \E s \in SockIds : SockOpen(s)
    \/ \E s \in SockIds, code \in {NormalClosure, PolicyViolation, AbnormalClosure} :
          SockClose(s, code)
    \/ TimerFire
    \/ SendMessage
    \/ \E s \in SockIds, id \in ServerIds : RecvMessage(s, id)
    \/ \E s \in SockIds, id \in ServerIds, st \in Statuses : RecvStatus(s, id, st)

ClientSpec == Init /\ [][ClientNext]_vars

\* ================================================================= claims

\* the status order sent < delivered < read
Rank(st) == CASE st = "sent" -> 1 [] st = "delivered" -> 2 [] st = "read" -> 3

\* connection c is timed out by the heartbeat in this step
TimedOut(c) == HeartbeatTick /\ Serving(c) /\ ~conns[c].isAlive

\* C1: when a connection c bound to subject S closes or is timed out by the
\* heartbeat while the registry holds a different connection c2 for S (one
\* that is not itself cleaned up in the same step), the registry still holds
\* c2 for S afterwards.
StaleUnregisterHarmless ==
    [][\A c \in ConnIds :
         LET s == conns[c].userId
             c2 == MapGet(clients, s)
         IN (/\ s # NoUser
             /\ c2 \notin {c, NoConn}
             /\ \/ CloseEvent(c)
                \/ TimedOut(c) /\ ~(Serving(c2) /\ ~conns[c2].isAlive))
            => MapGet(clients', s) = c2]_vars

\* C2: the registry never holds two entries for one subject id.
OneEntryPerSubject ==
    \A e1 \in clients, e2 \in clients : e1.key = e2.key => e1 = e2

\* C2 witness: a second connection authenticated as an already registered
\* subject and the registry entry now names the newer connection.
SupersededEntryReached ==
    \E c1 \in ConnIds, c2 \in ConnIds :
        /\ c1 < c2 /\ Serving(c1) /\ Serving(c2)
        /\ conns[c1].userId = conns[c2].userId
        /\ [key |-> conns[c2].userId, val |-> c2] \in clients

\* C3: no subject has two open authenticated connections.
OneOpenConnectionPerSubject ==
    \A c1 \in ConnIds, c2 \in ConnIds :
        (Serving(c1) /\ Serving(c2) /\ conns[c1].userId = conns[c2].userId) => c1 = c2

\* C4: a join_chat for conversation id ch succeeds (the subject is in the
\* room afterwards and joined_chat is sent) exactly when the subject is a
\* participant of ch; otherwise an error is sent and every room set is
\* unchanged.
JoinSucceedsIffParticipant ==
    [][\A c \in ConnIds, ch \in ChatIds \cup {GhostChat} :
         JoinChat(c, ch) =>
            LET r == handleJoinChat(c, ch)
                u == conns[c].userId
            IN IF ch \in ChatIds /\ u \in chats[ch]
               THEN /\ ch \in DOMAIN chatRooms' /\ u \in chatRooms'[ch]
                    /\ \E i \in DOMAIN r.out : r.out[i].type = "joined_chat"
               ELSE /\ \E i \in DOMAIN r.out : r.out[i].type = "error"
                    /\ chatRooms' = chatRooms]_vars

\* the rooms whose member set holds subject u
RoomsOf(u) == {ch \in DOMAIN chatRooms : u \in chatRooms[ch]}

\* C5: every subject id is in at most one room set.
AtMostOneRoomPerSubject == \A u \in Users : Cardinality(RoomsOf(u)) <= 1

\* C6: a chat_message for conversation ch from a subject that is not in
\* ch's room set appends no message and sends nothing but the NotInRoom
\* error to the originator.
NotInRoomRejected ==
    [][\A c \in ConnIds, ch \in ChatIds \cup {GhostChat} :
         (ChatMessage(c, ch, TRUE) /\ ch \notin RoomsOf(conns[c].userId)) =>
            /\ messages' = messages
            /\ handleChatMessage(c, ch, TRUE).out =
                 sendJson(conns, c, ErrorEv("Must join chat before sending message"))]_vars

\* C7: the status update of an accepted read_receipt goes to the connection
\* registered for the message's actual sender (when open) and to no other
\* connection, whatever senderId the payload carries.
ReceiptUpdateToActualSender ==
    [][\A c \in ConnIds, f \in MsgIds \X Users \X ChatIds :
         (ReadReceipt(c, f[1], f[2], f[3]) /\ ReceiptApplies(c, f[1], f[2], f[3])) =>
            \A i \in DOMAIN handleReadReceipt(c, f[1], f[2], f[3]).out :
                handleReadReceipt(c, f[1], f[2], f[3]).out[i].to
                  = MapGet(clients, messages[f[1]].sender)]_vars

\* C8: no connection is sent, for one message, a status lower than one it
\* was sent earlier for that message.
NoStatusRegression ==
    \A c \in ConnIds, m \in MsgIds :
        \A i \in DOMAIN obs[c][m], j \in DOMAIN obs[c][m] :
            i < j => Rank(obs[c][m][i]) <= Rank(obs[c][m][j])

\* C9 (as stated): no message's readBy holds the message's sender.
ReadByExcludesSender ==
    \A i \in DOMAIN messages : messages[i].sender \notin messages[i].readBy

\* C9 (amended): every stored message's readBy holds the message's sender,
\* from creation on.
ReadByHoldsSender ==
    \A i \in DOMAIN messages : messages[i].sender \in messages[i].readBy

\* C9 witness: a read path has added a reader to a stored message.
ReaderAddedReached ==
    \E i \in DOMAIN messages : messages[i].readBy # {messages[i].sender}

\* C10: a message has status 'read' only if every participant of its
\* conversation other than the sender is in its readBy.
ReadOnlyWhenAllRead ==
    \A i \in DOMAIN messages :
        messages[i].status = "read" =>
            \A p \in chats[messages[i].chatId] \ {messages[i].sender} :
                p \in messages[i].readBy

\* C10 witness: a message of the three-party conversation reached 'read'.
GroupMessageReadReached ==
    \E i \in DOMAIN messages : messages[i].status = "read" /\ messages[i].chatId = "cB"

\* the events of kind type that the sequence evs delivers to connection d
Sent(evs, d, type) == {i \in DOMAIN evs : evs[i].to = d /\ evs[i].type = type}

\* C11: when a read_receipt from reader R is accepted and R is the last
\* non-sender participant missing from readBy, the store the handler leaves
\* has R in readBy and the status 'read', and every status update the handler
\* sends carries status 'read' and readerId R.
LastReaderMakesRead ==
    \A c \in ConnIds, f \in MsgIds \X Users \X ChatIds :
        (/\ Serving(c)
         /\ ReceiptApplies(c, f[1], f[2], f[3])
         /\ chats[f[3]] \ {messages[f[1]].sender}
              \subseteq messages[f[1]].readBy \cup {conns[c].userId})
        => LET r == handleReadReceipt(c, f[1], f[2], f[3]) IN
           /\ r.messages[f[1]].status = "read"
           /\ conns[c].userId \in r.messages[f[1]].readBy
           /\ \A i \in DOMAIN r.out :
                  /\ r.out[i].type = "message_status_update"
                  /\ r.out[i].msgId = f[1]
                  /\ r.out[i].status = "read"
                  /\ r.out[i].userId = conns[c].userId

\* C11 witness: a message is stored as 'read' and a connection was sent the
\* 'read' status for it.
ReadUpdateSentReached ==
    \E m \in DOMAIN messages, c \in ConnIds :
        /\ messages[m].status = "read"
        /\ \E i \in DOMAIN obs[c][m] : obs[c][m][i] = "read"

\* C12: when a chat_message for conversation ch is accepted, every room
\* member whose registered connection is open is sent receive_message with
\* status 'sent'; every such member other than the sender is sent the
\* 'delivered' update after its receive_message; neither the sending
\* connection nor the sender's registered connection is sent a 'delivered'
\* update.
SentThenDelivered ==
    \A c \in ConnIds, ch \in ChatIds :
        (Serving(c) /\ ChatMessageVerdict(c, ch, TRUE) = "accepted") =>
           LET evs == handleChatMessage(c, ch, TRUE).out
               s == conns[c].userId
               members == IF ch \in DOMAIN chatRooms THEN chatRooms[ch] ELSE {}
           IN /\ \A u \in members :
                   LET d == MapGet(clients, u) IN
                   IsOpen(conns, d) =>
                      /\ \E i \in Sent(evs, d, "receive_message") :
                             evs[i].status = "sent"
                      /\ u # s =>
                            /\ Sent(evs, d, "message_status_update") # {}
                            /\ \A j \in Sent(evs, d, "message_status_update") :
                                   /\ evs[j].status = "delivered"
                                   /\ \A i \in Sent(evs, d, "receive_message") : i < j
              /\ Sent(evs, c, "message_status_update") = {}
              /\ Sent(evs, MapGet(clients, s), "message_status_update") = {}

\* C12 witness: after a send, the sender's connection has seen 'sent' only
\* and another member's connection 'sent' then 'delivered'.
SentAndDeliveredReached ==
    \E c \in ConnIds, d \in ConnIds, m \in DOMAIN messages :
        /\ conns[c].userId = messages[m].sender
        /\ obs[c][m] = <<"sent">>
        /\ obs[d][m] = <<"sent", "delivered">>

\* C13: in every reachable state in which a chat_message of connection c is
\* accepted, the events of the send include a receive_message addressed to c
\* itself.
SenderGetsEcho ==
    \A c \in ConnIds, ch \in ChatIds :
        (Serving(c) /\ ChatMessageVerdict(c, ch, TRUE) = "accepted") =>
           Sent(handleChatMessage(c, ch, TRUE).out, c, "receive_message") # {}

FailedTokens == {"missing", "bad", "ghost"}

\* C14: a handshake whose credential is missing, fails verification or
\* names no known user leaves the connection closed with code 1008 and
\* without a user id, and no connection without a user id is open.
FailedHandshakeClosed ==
    /\ \A c \in ConnIds : conns[c].status = "open" => conns[c].userId # NoUser
    /\ \A t \in FailedTokens :
         (\E c \in ConnIds : conns[c].status = "idle") =>
            LET ws == handleConnection(NextConn, t).conns[NextConn] IN
            /\ ws.status = "closed"
            /\ ws.closeCode = PolicyViolation
            /\ ws.userId = NoUser

\* C15: a successful handshake of subject u on connection c registers c
\* under u and sends, in this order: auth_success to c; online_users to c
\* carrying exactly the registered ids, u among them; then user_status
\* {u, online} to every other registered open connection and to no one else.
HandshakeSequence ==
    \A u \in Users :
        (\E c \in ConnIds : conns[c].status = "idle") =>
           LET c == NextConn
               r == handleConnection(c, u)
               others == {d \in ConnIds \ {c} :
                            /\ [key |-> r.conns[d].userId, val |-> d] \in r.clients
                            /\ r.conns[d].status = "open"}
           IN /\ MapGet(r.clients, u) = c
              /\ r.conns[c].userId = u /\ r.conns[c].status = "open"
              /\ Len(r.out) = 2 + Cardinality(others)
              /\ r.out[1].to = c /\ r.out[1].type = "auth_success"
              /\ r.out[1].userId = u
              /\ r.out[2].to = c /\ r.out[2].type = "online_users"
              /\ r.out[2].users = MapKeys(r.clients) /\ u \in r.out[2].users
              /\ \A i \in 3..Len(r.out) :
                     /\ r.out[i].type = "user_status"
                     /\ r.out[i].status = "online" /\ r.out[i].userId = u
                     /\ r.out[i].to \in others
              /\ \A d \in others : \E i \in 3..Len(r.out) : r.out[i].to = d

\* C15 witness: a handshake succeeded while another subject's connection was
\* registered and open.
SecondSubjectOnlineReached ==
    \E c \in ConnIds, d \in ConnIds :
        /\ d < c /\ Serving(c) /\ Serving(d)
        /\ conns[c].userId # conns[d].userId
        /\ MapGet(clients, conns[c].userId) = c
        /\ MapGet(clients, conns[d].userId) = d

\* C16: whatever frame arrives on an open connection that has not completed
\* the handshake, the connection table, the rooms and the message store are
\* left as they were (the registry is not written by any frame) and no event
\* is sent to any other connection.
UnauthFrameInert ==
    \A c \in ConnIds :
        (conns[c].status = "open" /\ conns[c].userId = NoUser) =>
           \A f \in Frames :
               LET r == handleMessage(c, f) IN
               /\ r.conns = conns
               /\ r.chatRooms = chatRooms
               /\ r.messages = messages
               /\ \A i \in DOMAIN r.out : r.out[i].to = c

\* C16 witness: an unauthenticated connection is open while a message is
\* stored that a receipt could mark and its sender is registered.
UnauthBesideMessageReached ==
    \E c \in ConnIds, m \in DOMAIN messages :
        /\ conns[c].status = "open" /\ conns[c].userId = NoUser
        /\ MapHas(clients, messages[m].sender)

\* the 'close' event of a connection the heartbeat terminated
TerminatedClose(c) == conns[c].status = "terminated" /\ CloseEvent(c)

\* the steps that read or write what the heartbeat reads and writes (the
\* connection table, the registry, the rooms); the message and HTTP steps
\* write the message store only
ConnNext ==
    \/ \E t \in Tokens : Connect(t)
    \/ \E c \in ConnIds, ch \in ChatArgs : JoinChat(c, ch)
    \/ \E c \in ConnIds : CloseEvent(c)
    \/ \E c \in ConnIds : Pong(c)
    \/ HeartbeatTick

\* the interval keeps firing, and a terminated socket emits 'close'
FairSpec ==
    /\ Init /\ [][ConnNext]_vars
    /\ WF_vars(HeartbeatTick)
    /\ \A c \in ConnIds : WF_vars(TerminatedClose(c))

\* what the cleanup of connection c (user a, focused on ch) must have done,
\* given the connection table, registry, rooms and events it leaves
CleanedUp(c, a, ch, cs, cl, rooms, evs) ==
    /\ ch # NoChat /\ ch \in DOMAIN rooms => a \notin rooms[ch]
    /\ ~MapHas(cl, a)
    /\ \A d \in ConnIds \ {c} :
         ([key |-> cs[d].userId, val |-> d] \in cl /\ IsOpen(cs, d)) =>
            \E i \in DOMAIN evs :
                /\ evs[i].to = d /\ evs[i].type = "user_status"
                /\ evs[i].userId = a /\ evs[i].status = "offline"

\* C17: when an authenticated connection focused on a room closes without
\* leaving it, by the transport's close event or by a heartbeat timeout, the
\* cleanup leaves its subject outside that room's member set and without a
\* registry entry, and every other registered open connection is sent
\* user_status {subject, offline}.
CloseCleansUp ==
    \A c \in ConnIds :
        (Serving(c) /\ conns[c].currentChatId # NoChat) =>
           /\ LET cs == [conns EXCEPT ![c].status = "closed"]
                  r == handleClose(cs, clients, chatRooms, c)
              IN CleanedUp(c, conns[c].userId, conns[c].currentChatId,
                           cs, r.clients, r.chatRooms, r.out)
           /\ ~conns[c].isAlive =>
                 CleanedUp(c, conns[c].userId, conns[c].currentChatId,
                           heartbeat.conns, heartbeat.clients,
                           heartbeat.chatRooms, heartbeat.out)

\* C17 witness: a connection that was focused on a room has been timed out
\* while another subject's connection stays registered and open.
FocusedTimedOutReached ==
    \E c \in ConnIds, d \in ConnIds :
        /\ conns[c].status = "terminated" /\ conns[c].currentChatId # NoChat
        /\ Serving(d) /\ MapGet(clients, conns[d].userId) = d

\* C18: a connection that was pinged and has not answered is, at the next
\* tick, terminated, out of its room and of the registry and announced
\* offline; and, the interval firing fairly, every connection that was
\* pinged and has not answered eventually answers or reaches Closed.
HeartbeatReaps ==
    /\ [](\A c \in ConnIds :
            (Serving(c) /\ ~conns[c].isAlive) =>
               /\ heartbeat.conns[c].status = "terminated"
               /\ CleanedUp(c, conns[c].userId, conns[c].currentChatId,
                            heartbeat.conns, heartbeat.clients,
                            heartbeat.chatRooms, heartbeat.out))
    /\ \A c \in ConnIds :
         (Serving(c) /\ ~conns[c].isAlive)
            ~> (conns[c].isAlive \/ conns[c].status = "closed")

\* C18 witness: a connection that did not answer its ping has been
\* terminated and removed from the registry.
TimedOutReached ==
    \E c \in ConnIds :
        /\ conns[c].status = "terminated" /\ ~conns[c].isAlive
        /\ ~MapHas(clients, conns[c].userId)

\* C19: every user_status broadcast comes with a change of the registry:
\* 'online' only from a handshake that writes the registry, 'offline' for S
\* only from a cleanup (close event or heartbeat tick) before which S has a
\* registry entry and after which it has none.
StatusBroadcastMeansChange ==
    /\ \A u \in Users :
         (\E c \in ConnIds : conns[c].status = "idle") =>
            LET r == handleConnection(NextConn, u) IN
            Len(r.out) > 2 => r.clients # clients
    /\ \A c \in ConnIds :
         (conns[c].status \in {"open", "terminated"} /\ conns[c].userId # NoUser) =>
            LET r == handleClose([conns EXCEPT ![c].status = "closed"],
                                 clients, chatRooms, c)
            IN r.out # <<>> =>
                  MapHas(clients, conns[c].userId) /\ ~MapHas(r.clients, conns[c].userId)
    /\ (\E c \in ConnIds : Serving(c)) =>
          \A i \in DOMAIN heartbeat.out :
              /\ MapHas(clients, heartbeat.out[i].userId)
              /\ ~MapHas(heartbeat.clients, heartbeat.out[i].userId)

\* C20: the close event of a connection the heartbeat already cleaned up
\* leaves the registry and the rooms as they are, whatever other connections
\* (a reconnect of the same subject included) did in between.
SecondCleanupChangesNothing ==
    \A c \in ConnIds :
        conns[c].status = "terminated" =>
           LET r == handleClose([conns EXCEPT ![c].status = "closed"],
                                clients, chatRooms, c)
           IN r.clients = clients /\ r.chatRooms = chatRooms

\* C21: a read_receipt whose reader is the sender of the target message
\* leaves the message store as it is and sends nothing, whatever senderId
\* the payload names.
OwnReceiptNoOp ==
    \A c \in ConnIds, f \in MsgIds \X Users \X ChatIds :
        (/\ Serving(c)
         /\ f[1] \in DOMAIN messages
         /\ messages[f[1]].sender = conns[c].userId)
        => LET r == handleReadReceipt(c, f[1], f[2], f[3]) IN
           r.messages = messages /\ r.out = <<>>

\* C21 witness: the sender of a stored message has a serving connection
\* focused on the message's conversation.
SenderCanReceiptReached ==
    \E c \in ConnIds, m \in DOMAIN messages :
        /\ Serving(c)
        /\ messages[m].sender = conns[c].userId
        /\ conns[c].currentChatId = messages[m].chatId

\* C22: once a reader other than the sender is in readBy of a message, a
\* further read_receipt of that reader for it leaves the message store as it
\* is and sends nothing.
RepeatedReceiptNoOp ==
    \A c \in ConnIds, f \in MsgIds \X Users \X ChatIds :
        (/\ Serving(c)
         /\ f[1] \in DOMAIN messages
         /\ conns[c].userId # messages[f[1]].sender
         /\ conns[c].userId \in messages[f[1]].readBy)
        => LET r == handleReadReceipt(c, f[1], f[2], f[3]) IN
           r.messages = messages /\ r.out = <<>>

\* C22 witness: a reader with a serving connection is in readBy of a message
\* of another subject, whose connection was sent the reader's update.
ReaderCanRepeatReached ==
    \E c \in ConnIds, d \in ConnIds, m \in DOMAIN messages :
        /\ Serving(c) /\ Serving(d)
        /\ conns[c].userId # messages[m].sender
        /\ conns[c].userId \in messages[m].readBy
        /\ conns[d].userId = messages[m].sender
        /\ Len(obs[d][m]) >= 1
        /\ obs[d][m][Len(obs[d][m])] \in {"sent", "read"}
        /\ messages[m].chatId = conns[c].currentChatId

\* C23: every member of every room set is a participant of the room's
\* conversation.
RoomMembersAreParticipants ==
    \A ch \in DOMAIN chatRooms :
        ch \in ChatIds /\ chatRooms[ch] \subseteq chats[ch]

\* C23 witness: a room has members while a subject that is not a participant
\* of its conversation has a serving connection.
RoomBesideOutsiderReached ==
    \E ch \in DOMAIN chatRooms, c \in ConnIds :
        /\ chatRooms[ch] # {}
        /\ Serving(c) /\ conns[c].userId \notin chats[ch]

\* frames that cannot be parsed or lack a field their handler requires
MalformedFrames ==
    {Frame("unparseable", NoChat, FALSE, 0, NoUser),
     Frame("join_chat", NoChat, FALSE, 0, NoUser),
     Frame("chat_message", NoChat, TRUE, 0, NoUser),
     Frame("chat_message", "cA", FALSE, 0, NoUser),
     Frame("typing", NoChat, FALSE, 0, NoUser),
     Frame("read_receipt", "cA", FALSE, 0, "u1"),
     Frame("read_receipt", "cA", FALSE, 1, NoUser),
     Frame("read_receipt", NoChat, FALSE, 1, "u1")}

\* C24: every malformed frame on a serving connection is answered with an
\* error event addressed to that connection, and the connection stays open.
MalformedFrameRejected ==
    \A c \in ConnIds :
        Serving(c) =>
           \A f \in MalformedFrames :
               LET r == handleMessage(c, f) IN
               /\ r.conns[c].status = "open"
               /\ \E i \in DOMAIN r.out :
                      r.out[i].to = c /\ r.out[i].type = "error"

\* frames the switch has no case for, and frames on which JSON.parse or the
\* switch throws (all end in the catch block)
FaultyKinds == {"unknown", "unparseable", "throws"}

TypingFireAndForget ==
    \A c \in ConnIds, ch \in ChatArgs, ty \in {"typing", "stop_typing"} :
        Serving(c) =>
           LET r == handleMessage(c, Frame(ty, ch, FALSE, 0, NoUser))
               s == conns[c].userId
               targets ==
                   IF ch # NoChat /\ conns[c].currentChatId = ch
                      /\ ch \in DOMAIN chatRooms
                   THEN {d \in ConnIds :
                           /\ IsOpen(conns, d)
                           /\ \E u \in chatRooms[ch] \ {s} : MapGet(clients, u) = d}
                   ELSE {}
           IN /\ r.conns = conns
              /\ r.chatRooms = chatRooms
              /\ r.messages = messages
              /\ {r.out[i].to : i \in DOMAIN r.out} = targets
              /\ Len(r.out) = Cardinality(targets)
              /\ \A i \in DOMAIN r.out :
                     /\ r.out[i].type = ty
                     /\ r.out[i].userId = s /\ r.out[i].chatId = ch
                     /\ r.out[i].to # c

\* C26 witness: two subjects' serving, registered connections are focused on
\* the same room and both are members of it.
TypingAudienceReached ==
    \E c \in ConnIds, d \in ConnIds :
        /\ Serving(c) /\ Serving(d)
        /\ conns[c].userId # conns[d].userId
        /\ conns[c].currentChatId # NoChat
        /\ conns[c].currentChatId = conns[d].currentChatId
        /\ conns[c].currentChatId \in DOMAIN chatRooms
        /\ {conns[c].userId, conns[d].userId} \subseteq chatRooms[conns[c].currentChatId]
        /\ MapGet(clients, conns[d].userId) = d

\* connection d is open and is the registry's entry of its user
Registered(cs, cl, d) ==
    IsOpen(cs, d) /\ [key |-> cs[d].userId, val |-> d] \in cl

\* C27: an event whose target has no registered open connection is not sent
\* and the operation still writes its state: a receipt whose target is
\* offline adds the reader and sends nothing; an accepted send stores the
\* message and addresses events to registered open connections only; and a
\* handshake sends nothing but auth_success, online_users and user_status,
\* so nothing dropped earlier is delivered on reconnect.
NoQueueing ==
    /\ \A c \in ConnIds, f \in MsgIds \X Users \X ChatIds :
         (/\ Serving(c)
          /\ ReceiptApplies(c, f[1], f[2], f[3])
          /\ ~IsOpen(conns, MapGet(clients, f[2])))
         => LET r == handleReadReceipt(c, f[1], f[2], f[3]) IN
            /\ r.out = <<>>
            /\ conns[c].userId \in r.messages[f[1]].readBy
    /\ \A c \in ConnIds, ch \in ChatIds :
         (Serving(c) /\ ChatMessageVerdict(c, ch, TRUE) = "accepted")
         => LET r == handleChatMessage(c, ch, TRUE) IN
            /\ Len(r.messages) = Len(messages) + 1
            /\ \A i \in DOMAIN r.out : Registered(conns, clients, r.out[i].to)
    /\ \A u \in Users :
         (\E c \in ConnIds : conns[c].status = "idle") =>
            LET r == handleConnection(NextConn, u) IN
            \A i \in DOMAIN r.out :
                r.out[i].type \in {"auth_success", "online_users", "user_status"}

\* C27 witness: a message became 'read' by a receipt, no connection holds
\* any event for it, and its sender has a serving registered connection.
DroppedUpdateReached ==
    \E m \in DOMAIN messages, c \in ConnIds :
        /\ messages[m].status = "read"
        /\ \A d \in ConnIds : obs[d][m] = <<>>
        /\ Serving(c) /\ conns[c].userId = messages[m].sender
        /\ MapGet(clients, conns[c].userId) = c

\* C28: no room entry has an empty member set.
NoEmptyRoom == \A ch \in DOMAIN chatRooms : chatRooms[ch] # {}

\* C28 witness: a serving connection is focused on a conversation whose room
\* entry is gone, its last member having been removed.
RoomDeletedReached ==
    \E c \in ConnIds :
        /\ Serving(c) /\ conns[c].currentChatId # NoChat
        /\ conns[c].currentChatId \notin DOMAIN chatRooms

\* C29: in every step, every stored message stays stored and its readBy in
\* the next state is a superset of its readBy in the current state.
ReadByAppendOnly ==
    [][\A i \in DOMAIN messages :
          /\ i \in DOMAIN messages'
          /\ messages[i].readBy \subseteq messages'[i].readBy]_vars

\* C29 witness: a message of the three-party conversation has been read by
\* both other participants.
TwoReadersReached ==
    \E i \in DOMAIN messages : Cardinality(messages[i].readBy) = 3

\* C30: a registered serving connection that has answered its last ping is,
\* after a heartbeat tick, still open and still the registry's entry of its
\* subject.
ResponsiveSurvivesTick ==
    \A c \in ConnIds :
        (Serving(c) /\ conns[c].isAlive /\ MapGet(clients, conns[c].userId) = c)
        => /\ heartbeat.conns[c].status = "open"
           /\ MapGet(heartbeat.clients, conns[c].userId) = c

\* C33: every message of a known conversation whose readBy holds every
\* participant other than the sender is stored with status 'read'.
ReadWhenAllRead ==
    \A i \in DOMAIN messages :
        (/\ messages[i].chatId \in ChatIds
         /\ chats[messages[i].chatId] \ {messages[i].sender} \subseteq messages[i].readBy)
        => messages[i].status = "read"

\* C34: readBy of every message holds only participants of the message's
\* conversation.
ReadByOnlyParticipants ==
    \A i \in DOMAIN messages :
        messages[i].chatId \in ChatIds =>
           messages[i].readBy \subseteq chats[messages[i].chatId]

\* C35: for every serving connection and conversation id, the connection is
\* focused on the conversation exactly when its subject is in the
\* conversation's room set.
FocusAgreesWithRoom ==
    \A c \in ConnIds, ch \in ChatIds \cup {GhostChat} :
        Serving(c) =>
           (conns[c].currentChatId = ch <=> ch \in RoomsOf(conns[c].userId))

\* C36: every member of every room set has an entry in the registry.
RoomMembersRegistered ==
    \A ch \in DOMAIN chatRooms : \A u \in chatRooms[ch] : MapHas(clients, u)

\* C37: the subject of every serving connection has an entry in the
\* registry.
ServingIsRegistered ==
    \A c \in ConnIds : Serving(c) => MapHas(clients, conns[c].userId)

\* C38: the conversation a connection is focused on exists and has the
\* connection's subject among its participants, and no chat_message on a
\* serving connection ends in the 'Not authorized for chat' branch.
FocusIsAuthorized ==
    /\ \A c \in ConnIds :
         conns[c].currentChatId # NoChat =>
            /\ conns[c].currentChatId \in ChatIds
            /\ conns[c].userId \in chats[conns[c].currentChatId]
    /\ \A c \in ConnIds, f \in ContentFrames :
         Serving(c) => ChatMessageVerdict(c, f[1], f[2]) # "unauthorized"

\* C38 witness: a serving connection is focused on a conversation after a
\* join of it was accepted, and a send on it passes both checks.
FocusedSendAcceptedReached ==
    \E c \in ConnIds :
        /\ Serving(c) /\ conns[c].currentChatId # NoChat
        /\ ChatMessageVerdict(c, conns[c].currentChatId, TRUE) = "accepted"
        /\ conns[c].userId \in chats["cA"] \cap chats["cB"]

\* C31: a close with code 1000 or 1008 leaves no reconnect timer pending; a
\* close with any other code while the user is logged in leaves exactly one
\* reconnect timer pending; and never is more than one timer pending.
ReconnectPolicy ==
    /\ pendingTimers <= 1
    /\ \A s \in SockIds : \A code \in CodesFor(socks[s]) :
         LET r == onclose([ClientState EXCEPT !.socks[s] = "closed"], code, TRUE)
         IN IF code \in {NormalClosure, PolicyViolation}
            THEN r.pending = 0
            ELSE loggedIn => r.pending = 1

\* C32: once the server's receive_message for the client's n-th send is in
\* the client's list, the list holds exactly one entry for that send.
OneEntryPerSentMessage ==
    \A n \in 1..sendCount :
        (\E i \in DOMAIN clientMessages : clientMessages[i].id = ServerId(n))
        => Cardinality({i \in DOMAIN clientMessages :
                           clientMessages[i].id \in {TempId(n), ServerId(n)}}) = 1

\* C39: in every step of the client, every entry of the message list that
\* stays in the list keeps its id and its status does not move backwards
\* along sent < delivered < read, whatever status updates arrive.
ClientStatusForward ==
    [][\A i \in DOMAIN clientMessages :
          i \in DOMAIN clientMessages' =>
             /\ clientMessages'[i].id = clientMessages[i].id
             /\ Rank(clientMessages'[i].status) >= Rank(clientMessages[i].status)]_vars

\* C39 witness: an entry of the client's list shows 'read' while a socket is
\* open on which further updates can arrive.
ClientShowsReadReached ==
    \E i \in DOMAIN clientMessages, s \in SockIds :
        clientMessages[i].status = "read" /\ socks[s] = "open"

\* C40: every open socket of the client is the one ws.current designates,
\* with isConnected set, and at most one socket is open.
OpenSocketIsCurrent ==
    /\ \A s \in SockIds : socks[s] = "open" => (wsCurrent = s /\ isConnected)
    /\ Cardinality({s \in SockIds : socks[s] = "open"}) <= 1

====
